---------------------------- MODULE Spec2Model ----------------------------
(***************************************************************************)
(* Model of github.com/ziflex/throttle: a fixed-window rate limiter.       *)
(*                                                                         *)
(* A Throttler holds a mutex, the start of the current window, a counter   *)
(* of admissions granted in that window, an immutable limit and a clock.   *)
(* Acquire locks the mutex, runs advance() and unlocks.  advance() may     *)
(* call clock.Sleep while the mutex is held.                               *)
(*                                                                         *)
(* Time is counted in ticks; one window (time.Second) is TicksPerSecond    *)
(* ticks.  The zero time.Time (the "unset" window) is tick 0; the clocks   *)
(* modelled here start at tick 1 or later, as time.Now() never returns the *)
(* zero time.                                                              *)
(***************************************************************************)
EXTENDS Integers, Sequences, FiniteSets, Bags, TLC

\* ------------------------------------------------------------------ bounds
NumProcs == 3
MaxCalls == 6
MaxLimit == 2
MaxTime == 4
TicksPerSecond == 2
MaxSkewCalls == 3
MaxOffset == 1
MaxWrapCalls == 2
MaxSetters == 2
MaxNewCalls == 2
MaxTwoCalls == 2
CounterBits == 2

Procs == 1..NumProcs
NoProc == 0

\* ------------------------------------------------------- program constants
windowSize == TicksPerSecond

ZeroTime == 0

\* the earliest instant a clock reads: time.Now() is never the zero time
FirstInstant == ZeroTime + 1

VARIABLES
    limit,        \* Throttler.limit
    window,       \* Throttler.window (ZeroTime = unset)
    counter,      \* Throttler.counter
    mu,           \* Throttler.mu: the goroutine holding it, or NoProc
    currentTime,  \* the clock's current instant
    sleepCalls,   \* durations passed to clock.Sleep, in order
    nowReads,     \* number of clock.Now calls made by the throttler
    lastNow,      \* the value returned by the latest clock.Now call
    pc,           \* position of each goroutine inside Acquire
    todo,         \* Acquire calls that will still be issued
    sleepDur,     \* argument of the Sleep call in progress
    sleepStart,   \* clock reading from which the Sleep in progress counts
    adm,          \* history: one record per admission, in admission order
    nwin,         \* history: number of windows opened so far
    closed,       \* history: value of counter when each window was replaced
    done,         \* history: number of Acquire calls that returned
    variant,      \* which version of the package the throttler is built from
    clockOffset,  \* Throttler.clockOffset of the clock-offset version
    wrapped,      \* history: bag of goroutines that invoked the wrapped operation
    results,      \* history: bag of (what the operation gave, what was returned)
    clock,        \* Throttler.clock
    setters,      \* the clocks of the WithClock options passed to New, in order
    nset,         \* buildOptions: number of setters applied so far
    optsClock,    \* buildOptions: options.clock
    ctor,         \* how far New has got: "options", "new", or "ready"
    other         \* a second Throttler, built by its own New call

\* the state added for the wrappers and the earlier versions of the package
buildVars == <<clock, setters, nset, optsClock, ctor>>
extVars == <<variant, clockOffset, wrapped, results, buildVars, other>>

vars == <<limit, window, counter, mu, currentTime, sleepCalls, nowReads,
          lastNow, pc, todo, sleepDur, sleepStart, adm, nwin, closed, done,
          extVars>>

throttlerVars == <<window, counter>>
clockVars == <<currentTime, sleepCalls, nowReads, lastNow>>
histVars == <<adm, nwin, closed>>

\* ----------------------------------------------------------------- helpers
RECURSIVE SumSeq(_)
SumSeq(s) == IF s = <<>> THEN 0 ELSE Head(s) + SumSeq(Tail(s))

Min(a, b) == IF a <= b THEN a ELSE b

\* time.Time.IsZero
IsZero(t) == t = ZeroTime

\* advance: "if t.limit == 0 { return }"
PassThroughOff(lim) == FALSE
PassThrough(lim) == lim = 0

\* advance: "if windowDur > windowSize"
ExpiredLate(windowDur) == windowDur > windowSize + 1
ExpiredAtBoundary(windowDur) == windowDur >= windowSize
Expired(windowDur) == windowDur > windowSize

\* Throttler: "counter uint64", "limit uint64".  The width of the type is
\* scaled down to CounterBits bits; MaxCounter stands for math.MaxUint64.
MaxCounter == 2 ^ CounterBits - 1

\* advance: "nextCount := t.counter + 1", an unsigned addition that wraps
\* around to 0 past the largest value of the type
NextCountStuck(c) == c
NextCount(c) == (c + 1) % (MaxCounter + 1)

\* advance: "if t.limit >= nextCount"
UnderLimitOffByOne(lim, nextCount) == lim + 1 >= nextCount
UnderLimit(lim, nextCount) == lim >= nextCount

\* advance: "sleepDur := windowSize - windowDur"
SleepDurElapsed(windowDur) == windowDur
SleepDurShort(windowDur) == windowSize - windowDur - 1
SleepDurOf(windowDur) == windowSize - windowDur

\* sync.Mutex.Lock returns only when nobody holds the mutex
CanLockAlways(m) == TRUE
CanLock(m) == m = NoProc

\* Acquire: t.mu.Unlock() leaves the mutex free
StillHeldAfterUnlock(p) == p
AfterUnlock(p) == NoProc

\* reset(): t.window = window; t.counter = 1
ResetCounter == 1

\* ------------------------------------------------------------------- state
New(lim) ==
    /\ limit = lim
    /\ window = ZeroTime
    /\ counter = 0
    /\ mu = NoProc

HistInit ==
    /\ adm = <<>>
    /\ nwin = 0
    /\ closed = <<>>
    /\ done = 0

\* no ClockOffsetProvider: the zero value of the field, a nil func
NoOffset == [kind |-> "nil", d |-> 0]

\* &Throttler{limit: limit} as a value: the fields of a second throttler,
\* with the Sleep its caller is in
NewThrottler(lim) ==
    [limit |-> lim, window |-> ZeroTime, counter |-> 0, mu |-> NoProc,
     sleepDur |-> 0, sleepStart |-> ZeroTime]

\* the throttler of throttle.go (Acquire, RoundTrip): no clockOffset field
ExtInit ==
    /\ variant = "acquire"
    /\ clockOffset = NoOffset
    /\ wrapped = EmptyBag
    /\ results = EmptyBag
    /\ other = NewThrottler(0)

\* the nil Clock, the clock buildOptions falls back to, and the clocks a
\* caller can pass to WithClock
NilClock == "nil"
DefaultClock == "DefaultClock"
MockClock == "mockClock"
CustomClock == "customClock"

\* New(limit, WithClock(c)...) has returned a throttler whose clock is c.
Built(s, c) ==
    /\ setters = s
    /\ nset = Len(s)
    /\ optsClock = c
    /\ clock = c
    /\ ctor = "ready"

BaseInit ==
    /\ \E lim \in 0..MaxLimit : New(lim)
    /\ currentTime = FirstInstant
    /\ sleepCalls = <<>>
    /\ nowReads = 0
    /\ lastNow = ZeroTime
    /\ pc = [p \in Procs |-> "idle"]
    /\ todo = MaxCalls
    /\ sleepDur = 0
    /\ sleepStart = ZeroTime
    /\ HistInit

Init == BaseInit /\ ExtInit /\ Built(<<>>, DefaultClock)

\* No statement of Acquire, advance or reset assigns t.limit or t.clock.
ConfigOverwritten == limit' = counter /\ UNCHANGED clock
ConfigKept == UNCHANGED <<limit, clock>>

\* ----------------------------------------------------------------- actions
\* A goroutine calls Acquire and reaches t.mu.Lock().
AcquireCall(p) ==
    /\ pc[p] = "idle"
    /\ todo > 0
    /\ pc' = [pc EXCEPT ![p] = "lock"]
    /\ todo' = todo - 1
    /\ ConfigKept
    /\ UNCHANGED <<extVars, throttlerVars, mu, clockVars, sleepDur, sleepStart,
                   histVars, done>>

\* t.mu.Lock() returns.
Lock(p) ==
    /\ pc[p] = "lock"
    /\ CanLock(mu)
    /\ mu' = p
    /\ pc' = [pc EXCEPT ![p] = "advance"]
    /\ ConfigKept
    /\ UNCHANGED <<extVars, throttlerVars, clockVars, todo, sleepDur, sleepStart,
                   histVars, done>>

\* reset(w) together with the history of the window it opens.
reset(w) ==
    /\ window' = w
    /\ counter' = ResetCounter
    /\ nwin' = nwin + 1
    /\ closed' = Append(closed, counter)
    /\ adm' = Append(adm, [t |-> w, w |-> nwin + 1])

\* advance() up to its return or up to the call of clock.Sleep.
advance(p) ==
    /\ pc[p] = "advance"
    /\ IF PassThrough(limit)
       THEN /\ pc' = [pc EXCEPT ![p] = "unlock"]
            /\ UNCHANGED <<throttlerVars, clockVars, sleepDur, sleepStart,
                           histVars>>
       ELSE LET now == currentTime
                opened == IsZero(window)
                win == IF opened THEN now ELSE window
                idx == IF opened THEN nwin + 1 ELSE nwin
                windowDur == now - win
                nextCount == NextCount(counter)
            IN  /\ nowReads' = nowReads + 1
                /\ lastNow' = now
                /\ UNCHANGED currentTime
                /\ IF Expired(windowDur)
                   THEN /\ reset(now)
                        /\ pc' = [pc EXCEPT ![p] = "unlock"]
                        /\ UNCHANGED <<sleepCalls, sleepDur, sleepStart>>
                   ELSE IF UnderLimit(limit, nextCount)
                   THEN /\ window' = win
                        /\ counter' = nextCount
                        /\ nwin' = idx
                        /\ adm' = Append(adm, [t |-> now, w |-> idx])
                        /\ pc' = [pc EXCEPT ![p] = "unlock"]
                        /\ UNCHANGED <<closed, sleepCalls, sleepDur, sleepStart>>
                   ELSE /\ window' = win
                        /\ nwin' = idx
                        /\ sleepDur' = SleepDurOf(windowDur)
                        /\ sleepStart' = now
                        /\ sleepCalls' = Append(sleepCalls, SleepDurOf(windowDur))
                        /\ pc' = [pc EXCEPT ![p] = "sleep"]
                        /\ UNCHANGED <<counter, adm, closed>>
    /\ ConfigKept
    /\ UNCHANGED <<extVars, mu, todo, done>>

\* DefaultClock.Sleep returns once at least sleepDur has elapsed;
\* advance() then runs t.reset(clock.Now()).
SleepReturn(p) ==
    /\ pc[p] = "sleep"
    /\ currentTime >= sleepStart + sleepDur
    /\ reset(currentTime)
    /\ nowReads' = nowReads + 1
    /\ lastNow' = currentTime
    /\ pc' = [pc EXCEPT ![p] = "unlock"]
    /\ ConfigKept
    /\ UNCHANGED <<extVars, mu, currentTime, sleepCalls, todo, sleepDur,
                   sleepStart, done>>

\* t.mu.Unlock(); Acquire returns.
Unlock(p) ==
    /\ pc[p] = "unlock"
    /\ mu = p
    /\ mu' = AfterUnlock(p)
    /\ pc' = [pc EXCEPT ![p] = "idle"]
    /\ done' = done + 1
    /\ ConfigKept
    /\ UNCHANGED <<extVars, throttlerVars, clockVars, todo, sleepDur, sleepStart,
                   histVars>>

\* Real time passes.  Time stops being observed at MaxTime unless a
\* sleeper still has to reach the end of its Sleep.
Tick ==
    /\ \/ currentTime < MaxTime
       \/ \E p \in Procs : pc[p] = "sleep" /\ currentTime < sleepStart + sleepDur
    /\ currentTime' = currentTime + 1
    /\ UNCHANGED <<extVars, limit, throttlerVars, mu, sleepCalls, nowReads, lastNow, pc,
                   todo, sleepDur, sleepStart, histVars, done>>

Next ==
    \/ \E p \in Procs : AcquireCall(p)
    \/ \E p \in Procs : Lock(p)
    \/ \E p \in Procs : advance(p)
    \/ \E p \in Procs : SleepReturn(p)
    \/ \E p \in Procs : Unlock(p)
    \/ Tick

Spec == Init /\ [][Next]_vars

TypeOK ==
    /\ limit \in 0..MaxLimit
    /\ window \in Nat
    /\ currentTime \in Nat \ {ZeroTime}
    /\ counter \in 0..MaxLimit
    /\ mu \in Procs \cup {NoProc}
    /\ pc \in [Procs -> {"idle", "lock", "advance", "sleep", "unlock"}]

\* ------------------------------------------------------- burst, mock clock
\* mockClock.Sleep: records the duration and moves currentTime forward by
\* exactly that duration; advance() then runs t.reset(clock.Now()).
MockSleep(p) ==
    /\ pc[p] = "sleep"
    /\ currentTime' = currentTime + sleepDur
    /\ reset(currentTime + sleepDur)
    /\ nowReads' = nowReads + 1
    /\ lastNow' = currentTime + sleepDur
    /\ pc' = [pc EXCEPT ![p] = "unlock"]
    /\ ConfigKept
    /\ UNCHANGED <<extVars, mu, sleepCalls, todo, sleepDur, sleepStart, done>>

\* A call of the burst: issued at the instant the burst starts.
BurstCall(p) ==
    /\ currentTime = FirstInstant
    /\ AcquireCall(p)

BurstInit ==
    /\ BaseInit
    /\ ExtInit
    /\ Built(<<MockClock>>, MockClock)
    /\ limit > 0

BurstNext ==
    \/ \E p \in Procs : BurstCall(p)
    \/ \E p \in Procs : Lock(p)
    \/ \E p \in Procs : advance(p)
    \/ \E p \in Procs : MockSleep(p)
    \/ \E p \in Procs : Unlock(p)

SpecBurst == BurstInit /\ [][BurstNext]_vars

\* ------------------------------------------------------------ custom clock
\* A Clock supplied through WithClock: Now may return any instant (the zero
\* time included, and earlier instants after later ones) and Sleep may
\* return at any moment.  The clock is followed only while a caller is
\* about to read it: its value at other moments is never observed.
ClockSet ==
    /\ \E p \in Procs : pc[p] \in {"advance", "sleep"}
    /\ \E t \in ZeroTime..MaxTime :
          /\ t # currentTime
          /\ currentTime' = t
    /\ UNCHANGED <<extVars, limit, throttlerVars, mu, sleepCalls, nowReads, lastNow, pc,
                   todo, sleepDur, sleepStart, histVars, done>>

\* The custom clock's Sleep returns; advance() runs t.reset(clock.Now()).
CustomSleepReturnAtWaitStart(p) ==
    /\ pc[p] = "sleep"
    /\ reset(sleepStart)
    /\ nowReads' = nowReads + 1
    /\ lastNow' = currentTime
    /\ pc' = [pc EXCEPT ![p] = "unlock"]
    /\ ConfigKept
    /\ UNCHANGED <<extVars, mu, currentTime, sleepCalls, todo, sleepDur,
                   sleepStart, done>>
CustomSleepReturn(p) ==
    /\ pc[p] = "sleep"
    /\ reset(currentTime)
    /\ nowReads' = nowReads + 1
    /\ lastNow' = currentTime
    /\ pc' = [pc EXCEPT ![p] = "unlock"]
    /\ ConfigKept
    /\ UNCHANGED <<extVars, mu, currentTime, sleepCalls, todo, sleepDur,
                   sleepStart, done>>

\* A call made on the throttler with the custom clock; at most
\* MaxSkewCalls of them are followed.
AnyClockCall(p) ==
    /\ todo > MaxCalls - MaxSkewCalls
    /\ AcquireCall(p)

AnyClockNext ==
    \/ \E p \in Procs : AnyClockCall(p)
    \/ \E p \in Procs : Lock(p)
    \/ \E p \in Procs : advance(p)
    \/ \E p \in Procs : CustomSleepReturn(p)
    \/ \E p \in Procs : Unlock(p)
    \/ ClockSet

AnyClockInit == BaseInit /\ ExtInit /\ Built(<<CustomClock>>, CustomClock)

SpecAnyClock == AnyClockInit /\ [][AnyClockNext]_vars

\* A Clock supplied through WithClock whose readings never decrease and
\* whose Sleep(d) lasts at least d.  Its first reading may be any instant,
\* the zero time.Time included (a clock value left at its zero value).
MonotoneInit ==
    /\ \E lim \in 0..MaxLimit : New(lim)
    /\ currentTime \in {ZeroTime, FirstInstant}
    /\ sleepCalls = <<>>
    /\ nowReads = 0
    /\ lastNow = ZeroTime
    /\ pc = [p \in Procs |-> "idle"]
    /\ todo = MaxCalls
    /\ sleepDur = 0
    /\ sleepStart = ZeroTime
    /\ HistInit
    /\ ExtInit
    /\ Built(<<CustomClock>>, CustomClock)

SpecMonotone == MonotoneInit /\ [][Next]_vars

\* New(limit) takes any uint64: every limit the type can hold, the largest
\* one included, with the default clock.
FullRangeInit ==
    /\ \E lim \in 0..MaxCounter : New(lim)
    /\ currentTime = FirstInstant
    /\ sleepCalls = <<>>
    /\ nowReads = 0
    /\ lastNow = ZeroTime
    /\ pc = [p \in Procs |-> "idle"]
    /\ todo = MaxCalls
    /\ sleepDur = 0
    /\ sleepStart = ZeroTime
    /\ HistInit
    /\ ExtInit
    /\ Built(<<>>, DefaultClock)

SpecFullRange == FullRangeInit /\ [][Next]_vars

\* ------------------------------------------- wrappers and earlier versions
\* what a wrapped operation (http.RoundTripper.RoundTrip, Fn[T]) may give
Responses == {"response", "error"}

\* RoundTrip: "return t.transport.RoundTrip(request)"; Do: "return fn()"
Returned(res) == res

\* the provider of the documented example of WithDynamicClockOffset
DynamicProvider(floor, dur) == IF dur < floor THEN floor ELSE dur

\* t.clockOffset(sleepDur) for a provider set by WithStaticClockOffset or
\* WithDynamicClockOffset
ClockOffsetOf(co, dur) ==
    IF co.kind = "static" THEN co.d ELSE DynamicProvider(co.d, dur)

\* the values WithStaticClockOffset / WithDynamicClockOffset can leave in
\* options.clockOffset, and the nil left by buildOptions without them
ClockOffsets ==
    {NoOffset} \cup [kind : {"static", "dynamic"}, d : 0..MaxOffset]

\* The window algorithm of the earlier versions after their first lines:
\* read time.Now(), open, expire, count or sleep.  hasOffset tells the
\* clock-offset version, which calls t.clockOffset(sleepDur) before
\* time.Sleep: with a nil provider that call panics.
windowSteps(p, hasOffset) ==
    LET now == currentTime
        opened == IsZero(window)
        win == IF opened THEN now ELSE window
        idx == IF opened THEN nwin + 1 ELSE nwin
        windowDur == now - win
        nextCount == NextCount(counter)
        dur == SleepDurOf(windowDur)
    IN  /\ nowReads' = nowReads + 1
        /\ lastNow' = now
        /\ UNCHANGED currentTime
        /\ IF Expired(windowDur)
           THEN /\ reset(now)
                /\ pc' = [pc EXCEPT ![p] = "unlock"]
                /\ UNCHANGED <<sleepCalls, sleepDur, sleepStart>>
           ELSE IF UnderLimit(limit, nextCount)
           THEN /\ window' = win
                /\ counter' = nextCount
                /\ nwin' = idx
                /\ adm' = Append(adm, [t |-> now, w |-> idx])
                /\ pc' = [pc EXCEPT ![p] = "unlock"]
                /\ UNCHANGED <<closed, sleepCalls, sleepDur, sleepStart>>
           ELSE IF hasOffset /\ clockOffset.kind = "nil"
           THEN /\ window' = win
                /\ nwin' = idx
                /\ pc' = [pc EXCEPT ![p] = "panic"]
                /\ UNCHANGED <<counter, adm, closed, sleepCalls, sleepDur,
                               sleepStart>>
           ELSE LET arg == IF hasOffset THEN dur + ClockOffsetOf(clockOffset, dur)
                                        ELSE dur
                IN  /\ window' = win
                    /\ nwin' = idx
                    /\ sleepDur' = arg
                    /\ sleepStart' = now
                    /\ sleepCalls' = Append(sleepCalls, arg)
                    /\ pc' = [pc EXCEPT ![p] = "sleep"]
                    /\ UNCHANGED <<counter, adm, closed>>

\* advance() of the clock-offset version, up to its return, its panic or
\* its call of time.Sleep.
advanceOffset(p) ==
    /\ variant = "offsetDo"
    /\ pc[p] = "advance"
    /\ IF PassThrough(limit)
       THEN /\ pc' = [pc EXCEPT ![p] = "unlock"]
            /\ UNCHANGED <<throttlerVars, clockVars, sleepDur, sleepStart,
                           histVars>>
       ELSE windowSteps(p, TRUE)
    /\ ConfigKept
    /\ UNCHANGED <<extVars, mu, todo, done>>

\* advance() of the first generic version: no pass-through for limit 0.
advanceGeneric(p) ==
    /\ variant = "lockedDo"
    /\ pc[p] = "advance"
    /\ windowSteps(p, FALSE)
    /\ ConfigKept
    /\ UNCHANGED <<extVars, mu, todo, done>>

\* Wait() of the first version, from time.Now() up to its return or its call
\* of time.Sleep: the same statements, no pass-through for limit 0, nothing
\* wrapped.
Wait(p) ==
    /\ variant = "wait"
    /\ pc[p] = "advance"
    /\ windowSteps(p, FALSE)
    /\ ConfigKept
    /\ UNCHANGED <<extVars, mu, todo, done>>

\* Wait(): the deferred t.mu.Unlock() runs and Wait returns.
WaitReturn(p) ==
    /\ variant = "wait"
    /\ Unlock(p)

\* advance() of throttle.go, reached through RoundTrip.
RoundTripAdvance(p) ==
    /\ variant = "acquire"
    /\ advance(p)

\* RoundTrip, Do or Wait is called and reaches the Lock of the admission.
WrapperCall(p) ==
    /\ todo > MaxCalls - MaxWrapCalls
    /\ AcquireCall(p)

\* RoundTrip: Acquire returns; Do of the clock-offset version:
\* t.mu.Unlock().  The wrapped operation has not been invoked yet.
AdmissionReturn(p) ==
    /\ variant \in {"acquire", "offsetDo"}
    /\ pc[p] = "unlock"
    /\ mu = p
    /\ mu' = AfterUnlock(p)
    /\ pc' = [pc EXCEPT ![p] = "invoke"]
    /\ done' = done + 1
    /\ ConfigKept
    /\ UNCHANGED <<extVars, throttlerVars, clockVars, todo, sleepDur,
                   sleepStart, histVars>>

\* t.transport.RoundTrip(request) / fn() is invoked, the mutex not held.
Invoke(p) ==
    /\ pc[p] = "invoke"
    /\ pc' = [pc EXCEPT ![p] = "fn"]
    /\ wrapped' = wrapped (+) SetToBag({p})
    /\ UNCHANGED <<buildVars, other, variant, clockOffset, results, limit, throttlerVars, mu,
                   clockVars, todo, sleepDur, sleepStart, histVars, done>>

\* The wrapped operation returns and the wrapper returns what it gave.
FnReturn(p) ==
    /\ pc[p] = "fn"
    /\ \E res \in Responses :
          results' = results (+) SetToBag({[got |-> res, ret |-> Returned(res)]})
    /\ pc' = [pc EXCEPT ![p] = "idle"]
    /\ UNCHANGED <<buildVars, other, variant, clockOffset, wrapped, limit, throttlerVars, mu,
                   clockVars, todo, sleepDur, sleepStart, histVars, done>>

\* Do of the first generic version: fn() is invoked after advance() with
\* the mutex still held.
InvokeLocked(p) ==
    /\ variant = "lockedDo"
    /\ pc[p] = "unlock"
    /\ pc' = [pc EXCEPT ![p] = "fnLocked"]
    /\ wrapped' = wrapped (+) SetToBag({p})
    /\ UNCHANGED <<buildVars, other, variant, clockOffset, results, limit, throttlerVars, mu,
                   clockVars, todo, sleepDur, sleepStart, histVars, done>>

\* fn() returns, then t.mu.Unlock() and Do returns what fn gave.
FnReturnLocked(p) ==
    /\ pc[p] = "fnLocked"
    /\ mu = p
    /\ mu' = AfterUnlock(p)
    /\ \E res \in Responses :
          results' = results (+) SetToBag({[got |-> res, ret |-> Returned(res)]})
    /\ pc' = [pc EXCEPT ![p] = "idle"]
    /\ done' = done + 1
    /\ UNCHANGED <<buildVars, other, variant, clockOffset, wrapped, limit, throttlerVars,
                   clockVars, todo, sleepDur, sleepStart, histVars>>

\* A throttler of any of the three versions that have a wrapper, or of the
\* version whose only method is Wait, with any clock-offset option where the
\* version has one.
WrapInit ==
    /\ BaseInit
    /\ variant \in {"acquire", "offsetDo", "lockedDo", "wait"}
    /\ clockOffset \in ClockOffsets
    /\ variant # "offsetDo" => clockOffset = NoOffset
    /\ wrapped = EmptyBag
    /\ results = EmptyBag
    /\ Built(<<>>, DefaultClock)
    /\ other = NewThrottler(0)

WrapNext ==
    \/ \E p \in Procs : WrapperCall(p)
    \/ \E p \in Procs : Lock(p)
    \/ \E p \in Procs : RoundTripAdvance(p)
    \/ \E p \in Procs : advanceOffset(p)
    \/ \E p \in Procs : advanceGeneric(p)
    \/ \E p \in Procs : Wait(p)
    \/ \E p \in Procs : WaitReturn(p)
    \/ \E p \in Procs : SleepReturn(p)
    \/ \E p \in Procs : AdmissionReturn(p)
    \/ \E p \in Procs : Invoke(p)
    \/ \E p \in Procs : FnReturn(p)
    \/ \E p \in Procs : InvokeLocked(p)
    \/ \E p \in Procs : FnReturnLocked(p)
    \/ Tick

SpecWrap == WrapInit /\ [][WrapNext]_vars

\* ------------------------------------------------------------ construction
\* the clocks the WithClock options of one New call may carry
ClockArgs == {NilClock, MockClock, CustomClock}

RECURSIVE SeqsUpTo(_, _)
SeqsUpTo(S, n) ==
    IF n = 0 THEN {<<>>}
    ELSE LET shorter == SeqsUpTo(S, n - 1)
         IN  shorter \cup {Append(q, x) : q \in shorter, x \in S}

\* the setter returned by WithClock(c), applied to opts: opts.clock = c
WithClockKeepsFirst(c, o) == IF o = NilClock THEN c ELSE o
WithClock(c, o) == c

\* buildOptions: "for _, setter := range setters { setter(opts) }"
ApplySetter ==
    /\ ctor = "options"
    /\ nset < Len(setters)
    /\ optsClock' = WithClock(setters[nset + 1], optsClock)
    /\ nset' = nset + 1
    /\ UNCHANGED <<limit, throttlerVars, mu, clockVars, pc, todo, sleepDur,
                   sleepStart, histVars, done, variant, clockOffset, wrapped,
                   results, clock, setters, ctor, other>>

\* buildOptions: "if opts.clock == nil { opts.clock = &DefaultClock{} }"
\* and its return
buildOptionsReturn ==
    /\ ctor = "options"
    /\ nset = Len(setters)
    /\ optsClock' = IF optsClock = NilClock THEN DefaultClock ELSE optsClock
    /\ ctor' = "new"
    /\ UNCHANGED <<limit, throttlerVars, mu, clockVars, pc, todo, sleepDur,
                   sleepStart, histVars, done, variant, clockOffset, wrapped,
                   results, clock, setters, nset, other>>

\* New: "return &Throttler{limit: limit, clock: opts.clock}"
NewReturn ==
    /\ ctor = "new"
    /\ clock' = optsClock
    /\ ctor' = "ready"
    /\ UNCHANGED <<limit, throttlerVars, mu, clockVars, pc, todo, sleepDur,
                   sleepStart, histVars, done, variant, clockOffset, wrapped,
                   results, setters, nset, optsClock, other>>

\* New(lim, setters...) has been called with at most MaxSetters options
\* and has not run yet.
NewInit ==
    /\ BaseInit
    /\ ExtInit
    /\ setters \in SeqsUpTo(ClockArgs, MaxSetters)
    /\ nset = 0
    /\ optsClock = NilClock
    /\ clock = NilClock
    /\ ctor = "options"

\* A call of Acquire on the constructed throttler; at most MaxNewCalls of
\* them are followed.
NewCall(p) ==
    /\ ctor = "ready"
    /\ todo > MaxCalls - MaxNewCalls
    /\ AcquireCall(p)

\* The clock the throttler was constructed with runs.
DefaultClockTick == clock = DefaultClock /\ ctor = "ready" /\ Tick
DefaultClockSleep(p) == clock = DefaultClock /\ SleepReturn(p)
MockClockSleep(p) == clock = MockClock /\ MockSleep(p)
CustomClockSet == clock = CustomClock /\ ClockSet
CustomClockSleep(p) == clock = CustomClock /\ CustomSleepReturn(p)

NewNext ==
    \/ ApplySetter
    \/ buildOptionsReturn
    \/ NewReturn
    \/ \E p \in Procs : NewCall(p)
    \/ \E p \in Procs : Lock(p)
    \/ \E p \in Procs : advance(p)
    \/ \E p \in Procs : Unlock(p)
    \/ DefaultClockTick
    \/ \E p \in Procs : DefaultClockSleep(p)
    \/ \E p \in Procs : MockClockSleep(p)
    \/ CustomClockSet
    \/ \E p \in Procs : CustomClockSleep(p)

SpecNew == NewInit /\ [][NewNext]_vars

\* --------------------------------------------------------- two throttlers
\* advance() of throttle.go as a function of the fields and of the clock
\* reading: the fields it leaves and the duration it passes to clock.Sleep
\* (NoSleep when it returns without sleeping).
NoSleep == 0 - 1

advanceOutcome(lim, win, cnt, now) ==
    IF PassThrough(lim)
    THEN [window |-> win, counter |-> cnt, sleep |-> NoSleep]
    ELSE LET w0 == IF IsZero(win) THEN now ELSE win
             windowDur == now - w0
             nextCount == NextCount(cnt)
         IN  IF Expired(windowDur)
             THEN [window |-> now, counter |-> ResetCounter, sleep |-> NoSleep]
             ELSE IF UnderLimit(lim, nextCount)
             THEN [window |-> w0, counter |-> nextCount, sleep |-> NoSleep]
             ELSE [window |-> w0, counter |-> cnt,
                   sleep |-> SleepDurOf(windowDur)]

\* Three transports: "a" and "b" are built by NewRoundTripperWith on the
\* same throttler, "c" on a throttler of its own.
Transports == {"a", "b", "c"}
throttlerOf == [tr \in Transports |-> IF tr = "c" THEN "other" ELSE "shared"]

\* the transport each goroutine sends its requests through
Via(p) == IF p % 3 = 1 THEN "a" ELSE IF p % 3 = 2 THEN "b" ELSE "c"

OnShared(p) == throttlerOf[Via(p)] = "shared"

\* RoundTrip on transport "c" reaches other.mu.Lock().
OtherCall(p) ==
    /\ pc[p] = "idle"
    /\ todo > 0
    /\ pc' = [pc EXCEPT ![p] = "olock"]
    /\ todo' = todo - 1
    /\ UNCHANGED <<extVars, limit, throttlerVars, mu, clockVars, sleepDur,
                   sleepStart, histVars, done>>

\* A request is sent through the goroutine's transport; at most
\* MaxTwoCalls of them are followed.
TwoCall(p) ==
    /\ todo > MaxCalls - MaxTwoCalls
    /\ IF OnShared(p) THEN AcquireCall(p) ELSE OtherCall(p)

\* other.mu.Lock() returns: it waits for other.mu only.
OtherCanLockBoth == CanLock(other.mu) /\ CanLock(mu)
OtherCanLock == CanLock(other.mu)

OtherLock(p) ==
    /\ pc[p] = "olock"
    /\ OtherCanLock
    /\ other' = [other EXCEPT !.mu = p]
    /\ pc' = [pc EXCEPT ![p] = "oadvance"]
    /\ UNCHANGED <<variant, clockOffset, wrapped, results, buildVars, limit,
                   throttlerVars, mu, clockVars, todo, sleepDur, sleepStart,
                   histVars, done>>

\* advance() on the other throttler, up to its return or its Sleep call.
OtherAdvance(p) ==
    /\ pc[p] = "oadvance"
    /\ LET o == advanceOutcome(other.limit, other.window, other.counter,
                               currentTime)
       IN  IF o.sleep = NoSleep
           THEN /\ other' = [other EXCEPT !.window = o.window,
                                          !.counter = o.counter]
                /\ pc' = [pc EXCEPT ![p] = "ounlock"]
           ELSE /\ other' = [other EXCEPT !.window = o.window,
                                          !.counter = o.counter,
                                          !.sleepDur = o.sleep,
                                          !.sleepStart = currentTime]
                /\ pc' = [pc EXCEPT ![p] = "osleep"]
    /\ UNCHANGED <<variant, clockOffset, wrapped, results, buildVars, limit,
                   throttlerVars, mu, clockVars, todo, sleepDur, sleepStart,
                   histVars, done>>

\* The Sleep of the other throttler's caller returns; reset(clock.Now()).
OtherSleepReturn(p) ==
    /\ pc[p] = "osleep"
    /\ currentTime >= other.sleepStart + other.sleepDur
    /\ other' = [other EXCEPT !.window = currentTime, !.counter = ResetCounter]
    /\ pc' = [pc EXCEPT ![p] = "ounlock"]
    /\ UNCHANGED <<variant, clockOffset, wrapped, results, buildVars, limit,
                   throttlerVars, mu, clockVars, todo, sleepDur, sleepStart,
                   histVars, done>>

\* other.mu.Unlock(); Acquire returns to RoundTrip.
OtherUnlock(p) ==
    /\ pc[p] = "ounlock"
    /\ other.mu = p
    /\ other' = [other EXCEPT !.mu = AfterUnlock(p)]
    /\ pc' = [pc EXCEPT ![p] = "invoke"]
    /\ done' = done + 1
    /\ UNCHANGED <<variant, clockOffset, wrapped, results, buildVars, limit,
                   throttlerVars, mu, clockVars, todo, sleepDur, sleepStart,
                   histVars>>

\* The real clock both throttlers read: time passes whether or not a
\* caller sleeps, and at least until every Sleep can return.
TwoTick ==
    /\ \/ currentTime < MaxTime
       \/ \E p \in Procs :
             pc[p] = "sleep" /\ currentTime < sleepStart + sleepDur
       \/ \E p \in Procs :
             pc[p] = "osleep" /\ currentTime < other.sleepStart + other.sleepDur
    /\ currentTime' = currentTime + 1
    /\ UNCHANGED <<extVars, limit, throttlerVars, mu, sleepCalls, nowReads,
                   lastNow, pc, todo, sleepDur, sleepStart, histVars, done>>

\* New(limit) twice, with the default clock, and the three transports.
TwoInit ==
    /\ BaseInit
    /\ variant = "acquire"
    /\ clockOffset = NoOffset
    /\ wrapped = EmptyBag
    /\ results = EmptyBag
    /\ Built(<<>>, DefaultClock)
    /\ \E lim \in 0..MaxLimit : other = NewThrottler(lim)

TwoNext ==
    \/ \E p \in Procs : TwoCall(p)
    \/ \E p \in Procs : Lock(p)
    \/ \E p \in Procs : advance(p)
    \/ \E p \in Procs : SleepReturn(p)
    \/ \E p \in Procs : AdmissionReturn(p)
    \/ \E p \in Procs : OtherLock(p)
    \/ \E p \in Procs : OtherAdvance(p)
    \/ \E p \in Procs : OtherSleepReturn(p)
    \/ \E p \in Procs : OtherUnlock(p)
    \/ \E p \in Procs : Invoke(p)
    \/ \E p \in Procs : FnReturn(p)
    \/ TwoTick

SpecTwo == TwoInit /\ [][TwoNext]_vars

\* ----------------------------------------------------------------- fairness
\* The scheduler runs every goroutine that can take a step, the mutex is
\* fair (a waiter is not overtaken forever), Sleep returns and time passes.
Fairness ==
    /\ \A p \in Procs : SF_vars(Lock(p))
    /\ \A p \in Procs : WF_vars(advance(p) \/ SleepReturn(p) \/ Unlock(p))
    /\ WF_vars(Tick)

FairSpec == Spec /\ Fairness

\* ------------------------------------------------------ history operators
InCS(p) == pc[p] \in {"advance", "sleep", "unlock"}

\* admissions counted in window number k
AdmIn(k) == {i \in DOMAIN adm : adm[i].w = k}

\* admissions whose timestamp lies in [from, to)
AdmBetween(from, to) == {i \in DOMAIN adm : adm[i].t >= from /\ adm[i].t < to}

\* index in adm of the first admission of window number k
FirstOf(k) == CHOOSE i \in AdmIn(k) : \A j \in AdmIn(k) : i <= j

\* whole windowSize units between the start of the burst and instant t
GroupOf(t) == (t - FirstInstant) \div windowSize

AdmInGroup(g) == {i \in DOMAIN adm : GroupOf(adm[i].t) = g}

Quiescent == \A p \in Procs : pc[p] = "idle"

\* ------------------------------------------------------------------ claims

\* C1: for limit > 0 and any interleaving of concurrent Acquire callers, the
\* number of admissions granted in one window (from the step that opens it
\* until the step that opens the next one) never exceeds limit.
PerWindowLimit ==
    limit > 0 => \A k \in 1..nwin : Cardinality(AdmIn(k)) <= limit

\* A saturated first window was followed by a second window that was
\* saturated too, while another caller waits for the mutex.
PerWindowLimitWitness ==
    /\ limit >= 2
    /\ nwin >= 2
    /\ Cardinality(AdmIn(1)) = limit
    /\ Cardinality(AdmIn(2)) = limit
    /\ \E p \in Procs : pc[p] = "lock"

\* C2: for limit > 0 no admission is lost or double-counted: every step
\* that finishes an admission decision either raises counter by exactly 1
\* in the current window or opens a new window with counter = 1, and the
\* counters of all windows add up to the number of admitted calls, which is
\* the number of Acquire calls that returned or are about to unlock.
NoLostAdmission ==
    /\ [](limit > 0 =>
            /\ SumSeq(closed) + counter = Len(adm)
            /\ Len(adm) = done + Cardinality({p \in Procs : pc[p] = "unlock"}))
    /\ [][limit > 0 =>
            \A p \in Procs :
                (pc[p] # "unlock" /\ pc'[p] = "unlock") =>
                    \/ /\ counter' = counter + 1
                       /\ window' = (IF IsZero(window) THEN lastNow' ELSE window)
                       /\ closed' = closed
                    \/ /\ counter' = 1
                       /\ window' = lastNow'
                       /\ closed' = Append(closed, counter)]_vars

\* All calls returned, some through an increment, some
\* through an expired window and some after a sleep.
NoLostAdmissionWitness ==
    /\ limit > 0
    /\ done = MaxCalls
    /\ Len(closed) >= 2
    /\ sleepCalls # <<>>
    /\ counter = 2

\* C3: for limit = 0 every Acquire call returns without invoking the
\* clock's Sleep and without reading the clock's Now, and leaves window
\* unset and counter at 0.
ZeroLimitPassThrough ==
    limit = 0 =>
        /\ nowReads = 0
        /\ sleepCalls = <<>>
        /\ \A p \in Procs : pc[p] # "sleep"
        /\ IsZero(window)
        /\ counter = 0

\* Several calls returned on a limit-0 throttler and more are in flight.
ZeroLimitPassThroughWitness ==
    /\ limit = 0
    /\ done >= 3
    /\ \E p \in Procs : pc[p] = "unlock"
    /\ \E p \in Procs : pc[p] = "lock"

\* C5: the mutex is held for the whole admission decision including the
\* sleep: at most one caller is inside the critical section (so at most one
\* sleeps), and while a caller sleeps on a saturated window nobody else is
\* admitted and window and counter do not change.
MutexHeldAcrossSleep ==
    /\ [](/\ Cardinality({p \in Procs : InCS(p)}) <= 1
          /\ \A p \in Procs : InCS(p) => mu = p)
    /\ [][\A p \in Procs :
            (pc[p] = "sleep" /\ pc'[p] = "sleep") =>
                /\ window' = window
                /\ counter' = counter
                /\ adm' = adm
                /\ mu' = p]_vars

\* A caller sleeps, time has passed since it started, and every other
\* goroutine is queued on the mutex.
MutexHeldAcrossSleepWitness ==
    \E p \in Procs :
        /\ pc[p] = "sleep"
        /\ currentTime > sleepStart
        /\ \A q \in Procs \ {p} : pc[q] = "lock"

\* C4: every Acquire call eventually returns: with a clock whose Sleep
\* returns, a fair mutex and a fair scheduler, and finitely many calls, from
\* some point on every goroutine is outside Acquire for good, so no caller
\* (waiting for the mutex, deciding, sleeping or about to unlock) is
\* rejected or left blocked forever.
AcquireReturns == <>[]Quiescent

\* Callers that had to queue behind a sleeper have returned: every call is
\* done and at least one of them slept.
AcquireReturnsWitness ==
    /\ limit > 0
    /\ done = MaxCalls
    /\ Quiescent
    /\ sleepCalls # <<>>

\* C6: burst distribution: limit > 0, N calls all issued at the instant the
\* fresh throttler starts, time advancing only through the throttler's own
\* exact sleeps.  Once all N calls returned, group g of the admission
\* timestamps (whole windowSize units since the start) holds exactly
\* min(limit, N - g*limit) admissions if g*limit < N and none otherwise.
BurstDistribution ==
    (limit > 0 /\ Quiescent) =>
        /\ Len(adm) = done
        /\ \A g \in 0..done :
              Cardinality(AdmInGroup(g)) =
                  (IF g * limit < done THEN Min(limit, done - g * limit) ELSE 0)

\* A burst of at least 2*limit + 1 calls with limit >= 2 has completed: two
\* full groups and a partial one.
BurstDistributionWitness ==
    /\ limit >= 2
    /\ Quiescent
    /\ done >= 2 * limit + 1
    /\ Len(sleepCalls) >= 2

\* C7: long-run rate bound: for limit > 0, with a non-decreasing clock whose
\* Sleep(d) lasts at least d, the n-th admission happens no earlier than
\* floor((n-1)/limit) window sizes after the first admission.
LongRunRateBound ==
    limit > 0 =>
        \A n \in DOMAIN adm :
            adm[n].t >= adm[1].t + ((n - 1) \div limit) * windowSize

\* With limit >= 2 the (limit+1)-th admission happened exactly one window
\* size and the (2*limit+1)-th exactly two window sizes after the first
\* one, the second admission being later than the first.
LongRunRateBoundWitness ==
    /\ limit >= 2
    /\ Len(adm) >= 2 * limit + 1
    /\ adm[2 * limit + 1].t = adm[1].t + 2 * windowSize
    /\ adm[limit + 1].t = adm[1].t + windowSize
    /\ adm[2].t > adm[1].t

\* C8: sliding-window rate limit: for limit > 0 and every instant t, at most
\* limit admissions have a timestamp in [t, t + windowSize).
SlidingWindowLimit ==
    limit > 0 =>
        \A t \in 0..currentTime :
            Cardinality(AdmBetween(t, t + windowSize)) <= limit

\* C9 as stated: for limit > 0 and every window, at most limit admissions
\* have a timestamp inside the span of one windowSize that starts at the
\* timestamp of that window's first admission.
SpanFromWindowStart ==
    limit > 0 =>
        \A k \in 1..nwin :
            AdmIn(k) # {} =>
                Cardinality(AdmBetween(adm[FirstOf(k)].t,
                                       adm[FirstOf(k)].t + windowSize)) <= limit

\* C9 amended: with a non-decreasing clock whose Sleep(d) lasts at least d,
\* for limit > 0 and every window, at most limit of the admissions granted
\* from that window's first admission onward have a timestamp inside the
\* span of one windowSize that starts at that first admission's timestamp
\* (admissions of the preceding window granted exactly at that instant are
\* not covered).
SpanFromFirstAdmission ==
    limit > 0 =>
        \A k \in 1..nwin :
            AdmIn(k) # {} =>
                Cardinality({i \in AdmBetween(adm[FirstOf(k)].t,
                                              adm[FirstOf(k)].t + windowSize) :
                                 i >= FirstOf(k)}) <= limit

\* The second window was opened exactly when the first one ended, after an
\* admission of the first window at that same instant, and was saturated.
SpanFromFirstAdmissionWitness ==
    /\ limit >= 2
    /\ nwin >= 2
    /\ Cardinality(AdmIn(2)) = limit
    /\ adm[FirstOf(2)].t = adm[1].t + windowSize
    /\ adm[FirstOf(2) - 1].t = adm[FirstOf(2)].t

\* C10 as stated: in every reachable state of a throttler with limit > 0,
\* either window is unset, or counter <= limit and now - window <= windowSize.
DataModelInvariant ==
    limit > 0 =>
        \/ IsZero(window)
        \/ /\ counter <= limit
           /\ currentTime - window <= windowSize

\* C10 amended: in every reachable state of a throttler with limit > 0,
\* either window is unset, or counter <= limit and r - window <= windowSize
\* for r the latest reading the throttler took from the clock; between
\* calls the clock itself may run past window + windowSize.
DataModelInvariantAtReads ==
    limit > 0 =>
        \/ IsZero(window)
        \/ /\ counter <= limit
           /\ lastNow - window <= windowSize

\* A saturated window was left idle for longer than windowSize: the clock
\* is past the end of the window and no call is in progress.
DataModelInvariantAtReadsWitness ==
    /\ limit > 0
    /\ ~IsZero(window)
    /\ counter = limit
    /\ Quiescent
    /\ currentTime - window > windowSize
    /\ lastNow - window = windowSize

\* C11: window-boundary policy: an Acquire call whose clock reading satisfies
\* now - window = windowSize exactly is handled in the current window: with
\* counter < limit it increments counter, leaves window unchanged and
\* does not sleep; a call opens a new window without sleeping only when
\* now - window > windowSize.
BoundaryPolicy ==
    [][\A p \in Procs :
          (pc[p] = "advance" /\ pc'[p] # "advance" /\ limit > 0
                /\ ~IsZero(window)) =>
              /\ (currentTime - window = windowSize /\ counter < limit) =>
                    /\ counter' = counter + 1
                    /\ window' = window
                    /\ sleepCalls' = sleepCalls
                    /\ pc'[p] = "unlock"
              /\ (pc'[p] = "unlock" /\ nwin' # nwin) =>
                    currentTime - window > windowSize]_vars

\* An admission was counted in the current window at exactly windowSize
\* after the window start, and the window start did not move.
BoundaryPolicyWitness ==
    /\ limit >= 2
    /\ nwin = 1
    /\ counter = 2
    /\ Len(adm) = 2
    /\ adm[2].t = window + windowSize
    /\ adm[1].t = window
    /\ sleepCalls = <<>>

\* C12: after a forced wait the caller is admitted unconditionally: window
\* is set to the value of the clock's Now read after Sleep returned (not
\* the time the wait began, not window + windowSize) and counter is set to
\* exactly 1, whatever the clock reads after waking.
ResetAfterWait ==
    [][\A p \in Procs :
          (pc[p] = "sleep" /\ pc'[p] # "sleep") =>
              /\ pc'[p] = "unlock"
              /\ nowReads' = nowReads + 1
              /\ lastNow' = currentTime'
              /\ window' = currentTime'
              /\ counter' = 1
              /\ adm' = Append(adm, [t |-> currentTime', w |-> nwin + 1])]_vars

\* A caller woke from its only sleep to a clock reading that is neither the
\* reading at which the wait began nor the end of the old window, here an
\* earlier one, and holds the new window with counter 1.
ResetAfterWaitWitness ==
    /\ \E p \in Procs : pc[p] = "unlock"
    /\ Len(sleepCalls) = 1
    /\ Len(closed) = 1
    /\ closed[1] = limit
    /\ counter = 1
    /\ window = lastNow
    /\ window < sleepStart
    /\ window # sleepStart + sleepDur

\* C13: wait duration: whenever Acquire calls the clock's Sleep, the
\* duration passed is exactly windowSize - (now - window) for the now read
\* at the start of that call, and with a non-decreasing clock it lies in
\* [0, windowSize]; as long as the clock has not advanced, the first limit
\* calls on a fresh throttler do not sleep and the (limit+1)-th call sleeps
\* exactly windowSize.
WaitDuration ==
    /\ [][\A p \in Procs :
            (pc[p] = "advance" /\ pc'[p] = "sleep") =>
                LET start == IF IsZero(window) THEN currentTime ELSE window
                    dur == windowSize - (currentTime - start)
                IN  /\ sleepDur' = dur
                    /\ sleepCalls' = Append(sleepCalls, dur)
                    /\ dur >= 0
                    /\ dur <= windowSize]_vars
    /\ []((limit > 0 /\ currentTime = FirstInstant) =>
            /\ Len(adm) <= limit
            /\ \/ sleepCalls = <<>>
               \/ /\ Len(adm) = limit
                  /\ sleepCalls = <<windowSize>>)

\* After a first sleep of a whole windowSize, a later caller sleeps for a
\* duration strictly between 0 and windowSize.
WaitDurationWitness ==
    /\ Len(sleepCalls) >= 2
    /\ sleepCalls[1] = windowSize
    /\ \E p \in Procs : pc[p] = "sleep"
    /\ sleepDur > 0
    /\ sleepDur < windowSize
    /\ sleepDur = windowSize - (sleepStart - window)

\* goroutines inside a wrapper whose wrapped operation is not invoked yet
BeforeInvoke ==
    {p \in Procs : pc[p] \in {"lock", "advance", "sleep", "unlock", "invoke"}}

\* goroutines whose wrapped operation is running
Running == {p \in Procs : pc[p] \in {"fn", "fnLocked"}}

\* C15: wrapper transparency: each RoundTrip call on the throttled
\* transport, and each Do call, performs exactly one admission, invokes the
\* wrapped operation exactly once and only after that admission has
\* completed, never retries, and returns what the wrapped operation gave.
\* Every call made so far has returned what the operation gave, is running
\* the operation, or is still on its way to invoking it; a call that ended
\* without invoking the operation is none of these.
WrapperTransparency ==
    /\ [](variant # "wait" =>
            /\ MaxCalls - todo =
                  BagCardinality(results) + Cardinality(Running)
                      + Cardinality(BeforeInvoke)
            /\ BagCardinality(wrapped) =
                  BagCardinality(results) + Cardinality(Running)
            /\ \A r \in BagToSet(results) : r.ret = r.got
            /\ limit > 0 =>
                  Len(adm) = BagCardinality(wrapped)
                      + Cardinality({p \in Procs : pc[p] \in {"unlock", "invoke"}}))
    /\ [][wrapped' # wrapped =>
            \E p \in Procs :
                /\ pc[p] \in {"unlock", "invoke"}
                /\ pc'[p] \in {"fn", "fnLocked"}
                /\ wrapped' = wrapped (+) SetToBag({p})
                /\ UNCHANGED <<window, counter, adm, sleepCalls>>]_vars

\* C16: Do runs the operation while holding the lock used by admission:
\* no two operations passed to Do on one throttler run at the same time and
\* no other caller is admitted while an operation is running.
DoSerialized ==
    /\ [](variant \in {"offsetDo", "lockedDo"} => Cardinality(Running) <= 1)
    /\ [][(variant \in {"offsetDo", "lockedDo"}
             /\ \E p \in Procs : p \in Running /\ pc'[p] = pc[p]) =>
            /\ adm' = adm
            /\ counter' = counter]_vars

\* the clock New must end up with: the last WithClock option's clock, or the
\* default clock when there is no option or that clock is nil
ChosenClock ==
    IF setters = <<>> \/ setters[Len(setters)] = NilClock
    THEN DefaultClock
    ELSE setters[Len(setters)]

\* C17: clock selection at construction: options are applied in the order
\* given; with several WithClock options the throttler uses the last one;
\* with no clock option, or a nil resulting clock, it uses the default real
\* clock; a constructed throttler always has a non-nil clock.
ClockSelection ==
    /\ ctor = "options" =>
          optsClock = IF nset = 0 THEN NilClock ELSE setters[nset]
    /\ ctor \in {"new", "ready"} => optsClock = ChosenClock
    /\ ctor = "ready" =>
          /\ clock = ChosenClock
          /\ clock # NilClock

\* Two WithClock options with different non-nil clocks were given and an
\* Acquire call has run on the clock of the second one.
ClockSelectionWitness ==
    /\ ctor = "ready"
    /\ Len(setters) = 2
    /\ setters[1] # NilClock
    /\ setters[2] # NilClock
    /\ setters[1] # setters[2]
    /\ clock = setters[2]
    /\ done >= 1

\* C18: the limit and the clock of a throttler never change after
\* construction: no Acquire call, on any path, modifies limit or clock.
ConfigImmutable ==
    [][ctor = "ready" => (limit' = limit /\ clock' = clock)]_vars

\* Calls have returned through the under-limit path and through the sleep
\* path of a constructed throttler.
ConfigImmutableWitness ==
    /\ ctor = "ready"
    /\ limit = 1
    /\ done >= 2
    /\ sleepCalls # <<>>

\* positions of a goroutine inside Acquire on the shared throttler and on
\* the other one
SharedPcs == {"lock", "advance", "sleep", "unlock"}
OtherPcs == {"olock", "oadvance", "osleep", "ounlock"}

\* C19: throttler instances are independent: an Acquire call on one
\* throttler leaves the window and counter of every other throttler
\* unchanged and never blocks on another throttler's lock, while two
\* transports built with NewRoundTripperWith on the same throttler draw
\* from one shared window and counter.
ThrottlerIndependence ==
    /\ [][/\ \A p \in Procs :
                (pc[p] \in OtherPcs /\ pc'[p] # pc[p]) =>
                    UNCHANGED <<window, counter, mu>>
          /\ \A p \in Procs :
                (pc[p] \in SharedPcs /\ pc'[p] # pc[p]) =>
                    /\ other'.window = other.window
                    /\ other'.counter = other.counter
                    /\ other'.mu = other.mu]_vars
    /\ [](\A p \in Procs :
            /\ (pc[p] = "olock" /\ other.mu = NoProc) => ENABLED OtherLock(p)
            /\ (pc[p] = "lock" /\ mu = NoProc) => ENABLED Lock(p))
    /\ [](limit > 0 =>
            /\ \A k \in 1..nwin : Cardinality(AdmIn(k)) <= limit
            /\ Len(adm) =
                  BagCardinality([q \in {r \in BagToSet(wrapped) : OnShared(r)}
                                     |-> CopiesIn(q, wrapped)])
                + Cardinality({p \in Procs :
                                  OnShared(p) /\ pc[p] \in {"unlock", "invoke"}}))

\* A request through "b" has been admitted by the shared throttler and
\* still holds its mutex, while a request through "c" has been admitted by
\* the other throttler and holds that throttler's mutex: both critical
\* sections are occupied at once, each throttler with its own window.
ThrottlerIndependenceWitness ==
    /\ limit = 2
    /\ nwin = 1
    /\ counter = 1
    /\ ~IsZero(window)
    /\ \E p \in Procs : Via(p) = "b" /\ pc[p] = "unlock" /\ mu = p
    /\ \E q \in Procs :
          /\ pc[q] = "ounlock"
          /\ other.mu = q
          /\ other.counter = 1
          /\ other.window # window

\* C20: the legacy variants (generic Do with and without clock offset, and
\* Wait) run the same admission algorithm as Acquire: for every limit
\* (including 0), every starting window and counter and the same clock
\* readings, each performs the same window/counter update and the same
\* sleep (or no sleep) as Acquire does.
LegacySameAlgorithm ==
    [][\A p \in Procs :
          (pc[p] = "advance" /\ pc'[p] # "advance") =>
             LET o == advanceOutcome(limit, window, counter, currentTime)
             IN  /\ window' = o.window
                 /\ counter' = o.counter
                 /\ IF o.sleep = NoSleep
                    THEN pc'[p] = "unlock" /\ sleepCalls' = sleepCalls
                    ELSE /\ pc'[p] = "sleep"
                         /\ sleepCalls' = Append(sleepCalls, o.sleep)]_vars

\* the instant the window of this call starts at, as advance() computes it:
\* the clock reading when the window is unset
WindowAt(now) == IF IsZero(window) THEN now ELSE window

\* advance() finds the window saturated: not expired and no room left
Saturated(now) ==
    /\ ~Expired(now - WindowAt(now))
    /\ ~UnderLimit(limit, NextCount(counter))

\* C21: in the legacy clock-offset variant, a call that finds the window
\* saturated sleeps for (windowSize - elapsed) plus the configured offset
\* (the static duration, or the dynamic provider applied to
\* windowSize - elapsed); when no offset option was given at construction
\* nothing is added and the call sleeps exactly windowSize - elapsed.
OffsetSleepDuration ==
    [][\A p \in Procs :
          (/\ variant = "offsetDo"
           /\ limit > 0
           /\ pc[p] = "advance"
           /\ pc'[p] # "advance"
           /\ Saturated(currentTime)) =>
             LET dur == SleepDurOf(currentTime - WindowAt(currentTime))
                 extra == IF clockOffset.kind = "nil" THEN 0
                          ELSE ClockOffsetOf(clockOffset, dur)
             IN  /\ pc'[p] = "sleep"
                 /\ sleepCalls' = Append(sleepCalls, dur + extra)]_vars

\* C22: counter range: in every reachable state, including states in which
\* a caller is sleeping, 0 <= counter <= limit; for limit > 0, counter is 0
\* only before the first admission and is >= 1 in every state after it.
CounterRange ==
    /\ 0 <= counter
    /\ counter <= limit
    /\ limit > 0 => (counter = 0 <=> adm = <<>>)

\* A caller sleeps on a full window of a throttler with limit 2.
CounterRangeWitness ==
    /\ limit = 2
    /\ counter = limit
    /\ Len(adm) >= 2
    /\ \E p \in Procs : pc[p] = "sleep" /\ mu = p

\* the two states of the specification's state machine
Unopened == IsZero(window) /\ counter = 0
Open == ~IsZero(window) /\ counter >= 1

\* C23: state machine: a newly constructed throttler is Unopened (window
\* unset, counter 0); for limit > 0 the first Acquire, for any clock
\* reading returned by Now, moves it to Open with window set to that
\* reading and counter 1; once Open the throttler never returns to
\* Unopened.
StateMachine ==
    /\ [](todo = MaxCalls => Unopened)
    /\ [][\A p \in Procs :
             (/\ limit > 0
              /\ Unopened
              /\ pc[p] = "advance"
              /\ pc'[p] # "advance") =>
                 /\ window' = currentTime
                 /\ counter' = 1
                 /\ Open']_vars
    /\ [][Open => Open']_vars

\* C24: Acquire on limit > 0 invokes the clock's Sleep if and only if, at
\* the call's clock reading, counter == limit and
\* now - window <= windowSize; it invokes Sleep at most once per call, so a
\* call that finds fewer than limit admissions in the current window, or
\* an expired window, never blocks in Sleep.
SleepCondition ==
    /\ [][\A p \in Procs :
             (limit > 0 /\ pc[p] = "advance" /\ pc'[p] # "advance") =>
                /\ pc'[p] = "sleep" <=>
                      /\ counter = limit
                      /\ currentTime - WindowAt(currentTime) <= windowSize
                /\ IF pc'[p] = "sleep"
                   THEN Len(sleepCalls') = Len(sleepCalls) + 1
                   ELSE sleepCalls' = sleepCalls]_vars
    /\ [][sleepCalls' # sleepCalls =>
             \E p \in Procs : pc[p] = "advance" /\ pc'[p] = "sleep"]_vars
    /\ [][\A p \in Procs :
             pc[p] = "sleep" => pc'[p] \in {"sleep", "unlock"}]_vars

\* A call read the clock exactly windowSize after the start of a full
\* window and is in Sleep, with a duration of zero.
SleepConditionWitness ==
    /\ limit = 2
    /\ counter = limit
    /\ \E p \in Procs : pc[p] = "sleep"
    /\ ~IsZero(window)
    /\ sleepStart = window + windowSize
    /\ sleepCalls = <<0>>

\* C25: expiry path: an Acquire call on limit > 0 whose clock reading
\* satisfies now - window > windowSize returns without sleeping and sets
\* window = now and counter = 1, whatever counter was before (saturated or
\* not), so unused capacity of the expired window is not carried over.
ExpiryPath ==
    [][\A p \in Procs :
          (/\ limit > 0
           /\ pc[p] = "advance"
           /\ pc'[p] # "advance"
           /\ currentTime - WindowAt(currentTime) > windowSize) =>
              /\ pc'[p] = "unlock"
              /\ sleepCalls' = sleepCalls
              /\ window' = currentTime
              /\ counter' = 1]_vars

\* With limit 2, a window that held one admission only was replaced on
\* expiry, without any Sleep, and the new window counts from 1.
ExpiryPathWitness ==
    /\ limit = 2
    /\ sleepCalls = <<>>
    /\ closed = <<1>>
    /\ counter = 1
    /\ ~IsZero(window)
    /\ window = lastNow
    /\ \E p \in Procs : pc[p] = "unlock"

\* C26: under-limit admission leaves the window alone: when an Acquire call
\* on an already open, unexpired window finds counter < limit, it increases
\* counter by exactly 1 and leaves window unchanged.
UnderLimitFrame ==
    [][\A p \in Procs :
          (/\ pc[p] = "advance"
           /\ pc'[p] # "advance"
           /\ ~IsZero(window)
           /\ currentTime - window <= windowSize
           /\ counter < limit) =>
              /\ counter' = counter + 1
              /\ window' = window
              /\ pc'[p] = "unlock"
              /\ sleepCalls' = sleepCalls]_vars

\* The second admission of a window was made at a later reading than the
\* first and the window start is still the first reading.
UnderLimitFrameWitness ==
    /\ limit = 2
    /\ counter = 2
    /\ nwin = 1
    /\ Len(adm) = 2
    /\ adm[2].t > adm[1].t
    /\ window = adm[1].t
    /\ \E p \in Procs : pc[p] = "unlock"

\* the admissions counted by counter: the latest counter entries of adm
CountedNow == {i \in DOMAIN adm : i > Len(adm) - counter}

\* C27: with a non-decreasing clock whose Sleep(d) lasts at least d, every
\* window start equals the admission timestamp of that window's first
\* admission, window starts never decrease, and the starts of two
\* consecutive windows are at least windowSize apart.
WindowStarts ==
    /\ []((limit > 0 /\ ~IsZero(window) /\ counter >= 1) =>
            /\ CountedNow # {}
            /\ \A i \in CountedNow :
                  (\A j \in CountedNow : i <= j) => adm[i].t = window)
    /\ [][(~IsZero(window) /\ window' # window) =>
            window' >= window + windowSize]_vars

\* C28: with a non-decreasing clock, every admission counted in a window
\* with start w has an admission timestamp t (the clock reading at which
\* it was decided) with w <= t <= w + windowSize.
AdmissionsInsideWindow ==
    (limit > 0 /\ ~IsZero(window)) =>
        \A i \in CountedNow :
            /\ window <= adm[i].t
            /\ adm[i].t <= window + windowSize

\* C29: rolling-span bound: with a non-decreasing clock whose Sleep(d)
\* lasts at least d, for limit L > 0 and every instant t, at most 2*L
\* admissions have a timestamp in [t, t + windowSize); equivalently any
\* 2*L + 1 consecutive admissions span at least windowSize.
RollingSpanBound ==
    limit > 0 =>
        /\ \A i \in DOMAIN adm :
              Cardinality(AdmBetween(adm[i].t, adm[i].t + windowSize))
                  <= 2 * limit
        /\ \A i, j \in DOMAIN adm :
              j = i + 2 * limit => adm[j].t - adm[i].t >= windowSize

\* With limit 2, five admissions were made and three of them lie within
\* less than one windowSize.
RollingSpanBoundWitness ==
    /\ limit = 2
    /\ Len(adm) >= 5
    /\ \E i \in DOMAIN adm :
          Cardinality(AdmBetween(adm[i].t, adm[i].t + windowSize)) = 3

\* C30: Acquire releases the mutex on every return path (limit == 0,
\* expired window, under-limit increment, after a sleep): in every
\* reachable state the mutex is held only by a caller that is currently
\* inside Acquire, and it is free whenever no Acquire call is in progress.
MutexReleased ==
    /\ mu # NoProc => pc[mu] \in {"advance", "sleep", "unlock"}
    /\ \A p \in Procs : pc[p] \in {"idle", "lock"} => mu # p
    /\ Quiescent => mu = NoProc

\* Calls have returned through the under-limit path, after a sleep and
\* through the expiry path, and nobody is inside Acquire.
MutexReleasedWitness ==
    /\ limit > 0
    /\ Quiescent
    /\ mu = NoProc
    /\ done >= 3
    /\ sleepCalls # <<>>
    /\ Len(closed) > Len(sleepCalls)

\* C31: the increment nextCount = counter + 1 never wraps around: for every
\* limit the counter's unsigned type can hold, the largest one included, a
\* call that reaches the increment computes counter + 1 without overflow,
\* so a call that finds counter == limit inside the window always takes
\* the Sleep path, and the number of admissions in one window never
\* exceeds limit.
NoWrapAround ==
    /\ [][\A p \in Procs :
             (/\ limit > 0
              /\ pc[p] = "advance"
              /\ pc'[p] # "advance"
              /\ ~Expired(currentTime - WindowAt(currentTime))) =>
                /\ NextCount(counter) = counter + 1
                /\ counter = limit => pc'[p] = "sleep"]_vars
    /\ [](limit > 0 => \A k \in 1..nwin : Cardinality(AdmIn(k)) <= limit)

=============================================================================
